---- MODULE Spec2Model ----
(***************************************************************************)
(* The gallery backend of src/server.js: the Express handlers POST /upload,*)
(* DELETE /delete/:id and PUT /update/:id over the GalleryItem collection  *)
(* (MongoDB, through mongoose) and the upload directory (multer disk       *)
(* storage, fs.unlink).  src/server.js holds two revisions of the server,  *)
(* lines 1-504 (variant 1) and lines 505-1138 (variant 2); the variable    *)
(* variant says which one runs.                                            *)
(*                                                                         *)
(* A handler is an async function: it runs without interruption up to an   *)
(* await, and other requests run while the awaited store call is pending.  *)
(* Each action below is one such piece: the completion of the awaited      *)
(* call together with the synchronous code that follows it.  fs.unlink is  *)
(* asynchronous with a callback: the call is queued in unlinks and         *)
(* completes, or fails, in a later step.                                   *)
(*                                                                         *)
(* src/unnamed/part_001 is the revision of the server that has no          *)
(* database: an item is an image file in uploads/<section>/, with its      *)
(* metadata in a JSON file next to it.  Its state is the variables         *)
(* uploads, fsreq and fsclock, its behaviours are those of FsSpec.         *)
(***************************************************************************)
EXTENDS Integers, Sequences, FiniteSets, TLC

VARIABLES
  variant,   \* which revision of the server runs: 1 or 2
  db,        \* the GalleryItem collection: _id -> document
  files,     \* the files present in the upload directory
  unlinks,   \* fs.unlink calls issued and not yet completed
  req,       \* the requests, by order of arrival
  nreq,      \* number of requests that have arrived
  nextId,    \* the next fresh ObjectId
  nextFile,  \* the next fresh multer filename
  solo,      \* the latest request, while nothing else has acted since it arrived
  pre,       \* db and files when request solo arrived
  uploads,   \* part_001: the directories of uploads/ and the files in each
  fsreq,     \* part_001: the request being handled, or the last one handled
  fsclock,   \* part_001: the time, counted in requests
  now        \* Date.now() as multer's filename function reads it (NameSpec)

\* The state of the server of part_001.
fsvars == <<uploads, fsreq, fsclock>>

vars ==
  <<variant, db, files, unlinks, req, nreq, nextId, nextFile, solo, pre, fsvars, now>>

\* Number of requests in a run.
MaxRequests == 2

Variants == {1, 2}
Reqs == 1..MaxRequests

-----------------------------------------------------------------------------
\* Strings are sequences of characters, so that trim() is computed.

Space == " "

Range(s) == {s[i] : i \in 1..Len(s)}

RECURSIVE TrimLeft(_)
TrimLeft(s) == IF s # <<>> /\ Head(s) = Space THEN TrimLeft(Tail(s)) ELSE s

RECURSIVE TrimRight(_)
TrimRight(s) ==
  IF s # <<>> /\ s[Len(s)] = Space THEN TrimRight(SubSeq(s, 1, Len(s) - 1)) ELSE s

\* String.prototype.trim
trim(s) == TrimRight(TrimLeft(s))

UpperCase ==
  <<"A", "B", "C", "D", "E", "F", "G", "H", "I", "J", "K", "L", "M",
    "N", "O", "P", "Q", "R", "S", "T", "U", "V", "W", "X", "Y", "Z">>
LowerCase ==
  <<"a", "b", "c", "d", "e", "f", "g", "h", "i", "j", "k", "l", "m",
    "n", "o", "p", "q", "r", "s", "t", "u", "v", "w", "x", "y", "z">>

\* String.prototype.toLowerCase
toLowerCase(s) ==
  [k \in 1..Len(s) |->
     IF \E n \in 1..Len(UpperCase) : UpperCase[n] = s[k]
       THEN LowerCase[CHOOSE n \in 1..Len(UpperCase) : UpperCase[n] = s[k]]
       ELSE s[k]]

\* JavaScript truthiness of a string: the empty string is falsy.
Truthy(s) == s # <<>>

Paintings == <<"p", "a", "i", "n", "t", "i", "n", "g", "s">>
Others == <<"o", "t", "h", "e", "r", "s">>

\* The text fields of the schema that are declared with trim: true.
TextFields == {"title", "description", "materials", "paintingSize"}
\* The fields read from req.body.
BodyFields == {"section"} \cup TextFields

\* req.body: a function from the fields present in the request to their raw
\* values; a field outside its domain is undefined.
EmptyBody == [f \in {} |-> <<>>]
Has(body, f) == f \in DOMAIN body

FullBody ==
  [section |-> Paintings, title |-> <<"a">>, description |-> <<"a", " ">>,
   materials |-> <<"a">>, paintingSize |-> <<"a">>]

\* Materials for an item that is not a painting (section defaults to others).
MaterialsBody == [materials |-> <<"a">>]

UploadBodies == {EmptyBody, FullBody, MaterialsBody}

OriginalNames == {<<"x">>, <<"y">>}

\* The uploads: <<body, hasFile, originalname of the file>>.
UploadInputs ==
  {<<EmptyBody, FALSE, <<>> >>}
    \cup {<<body, TRUE, name>> : body \in UploadBodies, name \in OriginalNames}

\* Update bodies: no field; each field alone with the empty string; a title
\* to trim; a title of blanks; an empty title with a description; a section.
TitleBody == [title |-> <<" ", "b">>]
BlankTitleBody == [title |-> <<" ">>]
TwoFieldBody == [title |-> <<>>, description |-> <<" ", "b">>]

\* A change of section.
SectionBody == [section |-> Others]

UpdateBodies ==
  {EmptyBody, TitleBody, BlankTitleBody, TwoFieldBody, SectionBody}
    \cup {[f \in {g} |-> <<>>] : g \in BodyFields}

\* The bodies of the updates that carry a file: no field, a title, an empty
\* section.
FileUpdateBodies == {EmptyBody, TitleBody, [section |-> <<>>]}

\* The updates: <<body, hasFile, originalname of the file>>.
UpdateInputs ==
  {<<body, FALSE, <<>> >> : body \in UpdateBodies}
    \cup {<<body, TRUE, name>> : body \in FileUpdateBodies, name \in OriginalNames}


-----------------------------------------------------------------------------
\* Identifiers and file names.

\* An id that is not a syntactically valid ObjectId.
BadId == -1
\* A valid ObjectId that no document ever has.
GhostId == 0
\* mongoose.Types.ObjectId.isValid
isValid(id) == id >= 0

\* req.file is undefined.
NoFile == 0

EmptyDb == [i \in {} |-> 0]
DbPut(d, id, doc) == [i \in DOMAIN d \cup {id} |-> IF i = id THEN doc ELSE d[i]]
\* Mutant of DbRemove: the documents stored after the one named go with it.
Mut_DbRemove(d, id) == [i \in {j \in DOMAIN d : j < id} |-> d[i]]
DbRemove(d, id) == [i \in DOMAIN d \ {id} |-> d[i]]

NoPre == [db |-> EmptyDb, files |-> {}]

\* The schema's setters: trim: true on the text fields, none on section.
SchemaCast(f, v) == IF f \in TextFields THEN trim(v) ELSE v

\* The schema's required validator on section: a String path that is
\* required rejects the empty string.
SectionValid(v) == v # <<>>

\* new GalleryItem({...}) of POST /upload.
NewGalleryItem(body, file, name, date) ==
  [section |-> IF Has(body, "section") /\ Truthy(body.section)
                 THEN body.section ELSE Others,
   filePath |-> file,
   filename |-> file,
   originalName |-> name,
   title |-> IF Has(body, "title") /\ Truthy(body.title)
               THEN SchemaCast("title", trim(body.title)) ELSE <<>>,
   description |-> IF Has(body, "description") /\ Truthy(body.description)
                     THEN SchemaCast("description", trim(body.description)) ELSE <<>>,
   materials |-> IF Has(body, "materials") /\ Truthy(body.materials)
                   THEN SchemaCast("materials", trim(body.materials)) ELSE <<>>,
   paintingSize |-> IF Has(body, "paintingSize") /\ Truthy(body.paintingSize)
                      THEN SchemaCast("paintingSize", trim(body.paintingSize)) ELSE <<>>,
   uploadDate |-> date]

\* An item as the responses give it: the fields of the document but
\* filePath, with its _id and with the url built from filename.
ItemJson(id, doc) ==
  [id |-> id, section |-> doc.section, filename |-> doc.filename,
   originalName |-> doc.originalName, title |-> doc.title,
   description |-> doc.description, materials |-> doc.materials,
   paintingSize |-> doc.paintingSize, uploadDate |-> doc.uploadDate,
   url |-> doc.filename]

\* updateData of PUT /update/:id, variant 1: a falsy value counts as absent,
\* section is not trimmed.
updateData1(body) ==
  [f \in {g \in DOMAIN body : Truthy(body[g])} |->
     IF f = "section" THEN body[f] ELSE trim(body[f])]

\* updateData of PUT /update/:id, variant 2: every field that is not undefined
\* is included, trimmed.
updateData2(body) == [f \in DOMAIN body |-> trim(body[f])]

\* Mutant of updateData: the text fields that are undefined are not removed
\* and overwrite the stored values.
Mut_updateData(v, body) ==
  LET kept == IF v = 1 THEN updateData1(body) ELSE updateData2(body)
  IN [f \in DOMAIN kept \cup TextFields |->
        IF f \in DOMAIN kept THEN kept[f] ELSE <<>>]

updateData(v, body) == IF v = 1 THEN updateData1(body) ELSE updateData2(body)

\* The file details added to updateData when the request carries a file.
FileDetails(file, name) ==
  IF file = NoFile THEN EmptyBody
  ELSE [filePath |-> file, filename |-> file, originalName |-> name]

\* The document after $set of upd (body fields cast by the schema).
ApplyUpdate(doc, upd, details) ==
  [f \in DOMAIN doc |->
     IF f \in DOMAIN details THEN details[f]
     ELSE IF f \in DOMAIN upd THEN SchemaCast(f, upd[f])
     ELSE doc[f]]

\* runValidators: true: the update validators of the paths in upd.
UpdateValid(upd) == Has(upd, "section") => SectionValid(upd.section)

-----------------------------------------------------------------------------
\* Requests.

\* A request: the handler's locals and its response, and a record of what
\* it has done.
\*   op, pc     the handler and the await (or callback) it is waiting for
\*   id         req.params.id (for an upload, the _id of the new document)
\*   body       req.body
\*   file, name req.file.path and req.file.originalname (NoFile: no req.file)
\*   old        the filePath read from the item found by findById
\*   status     the status of the response, once sent
\*   tag        which response of the handler was sent
\*   metaOk     its write to the collection (save, findByIdAndUpdate,
\*              findByIdAndDelete) has resolved
\*   issued     the paths it has called fs.unlink on, in order
\*   gone       the paths that its fs.unlink calls have removed
\*   section    req.params.section
\*   out        the items of the response body, in order (none in an error
\*              response)
\*   slug       the second segment of the path of GET /:section/:slug
NoReq ==
  [op |-> "none", pc |-> "idle", id |-> BadId, body |-> EmptyBody,
   file |-> NoFile, name |-> <<>>, old |-> NoFile,
   status |-> 0, tag |-> "", metaOk |-> FALSE, issued |-> <<>>, gone |-> {},
   section |-> <<>>, out |-> <<>>, slug |-> <<>>]

\* part_001: uploads/ has no directory.
EmptyTree == [d \in {} |-> {}]

\* part_001: a request, with the handler's locals and its response.
\*   op, pc     the handler; pc is "handler" once upload.single has stored
\*              the file and the handler is to run
\*   body       req.body
\*   section    req.params.section
\*   name       req.file.originalname
\*   file       the file stored by multer in uploads/temp
\*   status     the status of the response, once sent
\*   out        the items of the response body, in order
NoFsReq ==
  [op |-> "none", pc |-> "idle", body |-> EmptyBody, section |-> <<>>,
   name |-> <<>>, file |-> <<>>, status |-> 0, out |-> <<>>]

\* The collection and the upload directory outlive the process: the server
\* starts either on empty stores or on what an earlier run left, here one
\* or two items stored by uploads of FullBody, with their files.
StoredItem == NewGalleryItem(FullBody, 1, <<"x">>, 0)
\* A second one, stored before it.
OlderItem == NewGalleryItem(FullBody, 2, <<"y">>, -1)

\* The stores left by an earlier run that stored n items.
StoredDb(n) ==
  IF n = 0 THEN EmptyDb
  ELSE IF n = 1 THEN DbPut(EmptyDb, 1, StoredItem)
  ELSE DbPut(DbPut(EmptyDb, 1, StoredItem), 2, OlderItem)

Init ==
  /\ variant \in Variants
  /\ \E stored \in 0..2 :
       /\ db = StoredDb(stored)
       /\ files = 1..stored
       /\ nextId = stored + 1
       /\ nextFile = stored + 1
  /\ unlinks = {}
  /\ req = [r \in Reqs |-> NoReq]
  /\ nreq = 0
  /\ solo = 0
  /\ pre = NoPre
  /\ uploads = EmptyTree
  /\ fsreq = NoFsReq
  /\ fsclock = 0
  /\ now = 0

\* The ids a client can name: a malformed one, a valid one that matches
\* nothing, and those the server has handed out.
TargetIds == {BadId, GhostId} \cup 1..(nextId - 1)

\* The requests as request r leaves them apart from its own: what is kept of
\* a request is its handler's locals and its response, and another request
\* that has responded and has no unlink pending is forgotten.  The 201
\* response of an upload is kept for as long as the client can rely on it:
\* until an update or a delete of its item acts.
Keep(r) ==
  [q \in Reqs |->
     IF /\ q # r /\ req[q].pc = "done" /\ ~(\E u \in unlinks : u.rid = q)
        /\ \/ req[q].status # 201
           \/ req[r].op \in {"update", "delete"} /\ req[r].id = req[q].id
       THEN NoReq ELSE req[q]]

\* Request r arrives: it is the latest, and the stores are remembered.
Arrives(r) ==
  /\ nreq < MaxRequests
  /\ r = nreq + 1
  /\ nreq' = r
  /\ solo' = r
  /\ pre' = [db |-> db, files |-> files]

\* Request r takes a step.
Steps(r) ==
  /\ nreq' = nreq
  /\ solo' = IF solo = r THEN r ELSE 0
  /\ pre' = IF solo = r THEN pre ELSE NoPre

\* res.status(status).json(...): the handler is over.
Respond(q, status, tag) == [q EXCEPT !.pc = "done", !.status = status, !.tag = tag]

\* fs.unlink(path, cb) is called by request r.
Unlink(r, path, cb) == [path |-> path, rid |-> r, cb |-> cb]
Issue(q, path) == [q EXCEPT !.issued = Append(@, path)]

-----------------------------------------------------------------------------
\* POST /upload

\* upload.single("file") has written the file, if the request has one.
\* Without a file the handler responds 400.  Else it builds the document
\* (its _id and uploadDate are set by the constructor: the upload date is the
\* time of arrival, counted in requests) and awaits save().
UploadArrive(r, body, hasFile, name) ==
  /\ Arrives(r)
  /\ files' = IF hasFile THEN files \cup {nextFile} ELSE files
  /\ nextFile' = IF hasFile THEN nextFile + 1 ELSE nextFile
  /\ nextId' = IF hasFile THEN nextId + 1 ELSE nextId
  /\ req' = [Keep(r) EXCEPT ![r] =
       IF hasFile
         THEN [NoReq EXCEPT !.op = "upload", !.pc = "save", !.id = nextId,
                            !.body = body, !.file = nextFile, !.name = name]
         ELSE Respond([NoReq EXCEPT !.op = "upload", !.body = body], 400, "noFile")]
  /\ UNCHANGED <<variant, now, fsvars, db, unlinks>>

\* Mutant of UploadSave: the response is 201 with the item, and the document
\* is not stored.
Mut_UploadSave(r) ==
  /\ req[r].op = "upload" /\ req[r].pc = "save"
  /\ Steps(r)
  /\ LET newGalleryItem == NewGalleryItem(req[r].body, req[r].file, req[r].name, r)
     IN req' = [Keep(r) EXCEPT ![r] =
          Respond([@ EXCEPT !.metaOk = TRUE,
                            !.out = <<ItemJson(req[r].id, newGalleryItem)>>],
                  201, "created")]
  /\ UNCHANGED <<variant, now, fsvars, db, files, unlinks, nextId, nextFile>>

\* save() resolves: the document is stored and the response is 201 with
\* the item.
UploadSave(r) ==
  /\ req[r].op = "upload" /\ req[r].pc = "save"
  /\ Steps(r)
  /\ LET newGalleryItem == NewGalleryItem(req[r].body, req[r].file, req[r].name, r)
     IN /\ db' = DbPut(db, req[r].id, newGalleryItem)
        /\ req' = [Keep(r) EXCEPT ![r] =
             Respond([@ EXCEPT !.metaOk = TRUE,
                               !.out = <<ItemJson(req[r].id, newGalleryItem)>>],
                     201, "created")]
  /\ UNCHANGED <<variant, now, fsvars, files, unlinks, nextId, nextFile>>

\* Mutant of UploadSaveFail: the catch block responds without cleaning up.
Mut_UploadSaveFail(r) ==
  /\ req[r].op = "upload" /\ req[r].pc = "save"
  /\ Steps(r)
  /\ req' = [Keep(r) EXCEPT ![r] = Respond(@, 500, "saveFailed")]
  /\ UNCHANGED <<variant, now, fsvars, db, files, unlinks, nextId, nextFile>>

\* save() rejects: the catch block unlinks the uploaded file and responds 500.
UploadSaveFail(r) ==
  /\ req[r].op = "upload" /\ req[r].pc = "save"
  /\ Steps(r)
  /\ unlinks' = unlinks \cup {Unlink(r, req[r].file, "log")}
  /\ req' = [Keep(r) EXCEPT ![r] = Respond(Issue(@, req[r].file), 500, "saveFailed")]
  /\ UNCHANGED <<variant, now, fsvars, db, files, nextId, nextFile>>

-----------------------------------------------------------------------------
\* upload.single("file") refusing the file, and the global error handler.
\* The middleware runs before the handler of POST /upload and of
\* PUT /update/:id; when it passes an error to next(), the handler never
\* runs and the error handler responds.

\* The routes that run upload.single("file").
MulterRoutes == {"upload", "update"}

\* Mutant of ErrorStatus: no branch for the errors of multer.
Mut_ErrorStatus(v, error) ==
  IF v = 2 /\ error = "CORS" THEN 403
  ELSE IF error \in {"ValidationError", "CastError"} THEN 400
  ELSE 500

\* The status sent by app.use((error, req, res, next) => ...), by the kind of
\* the error: the CORS error (variant 2 has a branch for it), a MulterError,
\* the ValidationError and CastError of mongoose, any other Error (which has
\* no http_code and no status).
ErrorStatus(v, error) ==
  IF v = 2 /\ error = "CORS" THEN 403
  ELSE IF error = "MulterError" THEN 400
  ELSE IF error \in {"ValidationError", "CastError"} THEN 400
  ELSE 500

\* fileFilter: the MIME type of the file does not start with "image/", and
\* the callback is given new Error('Only image files are allowed!').  Nothing
\* is written; the error handler responds.
MulterFileFilter(r, op) ==
  /\ Arrives(r)
  /\ req' = [Keep(r) EXCEPT ![r] =
       Respond([NoReq EXCEPT !.op = op], ErrorStatus(variant, "Error"), "notImage")]
  /\ UNCHANGED <<variant, now, fsvars, db, files, unlinks, nextId, nextFile>>

\* limits.fileSize: the file is longer than 10 MB.  Disk storage has named
\* the file and is writing it when the limit is met.
MulterLimit(r, op) ==
  /\ Arrives(r)
  /\ files' = files \cup {nextFile}
  /\ nextFile' = nextFile + 1
  /\ req' = [Keep(r) EXCEPT ![r] =
       [NoReq EXCEPT !.op = op, !.pc = "multerAbort", !.file = nextFile]]
  /\ UNCHANGED <<variant, now, fsvars, db, unlinks, nextId>>

\* multer removes the file it was writing and passes
\* MulterError LIMIT_FILE_SIZE to next(): the error handler responds.
MulterAbort(r) ==
  /\ req[r].pc = "multerAbort"
  /\ Steps(r)
  /\ files' = files \ {req[r].file}
  /\ req' = [Keep(r) EXCEPT ![r] =
       Respond(@, ErrorStatus(variant, "MulterError"), "tooLarge")]
  /\ UNCHANGED <<variant, now, fsvars, db, unlinks, nextId, nextFile>>

-----------------------------------------------------------------------------
\* fs.unlink

\* The status of the response sent by the callback of the unlink in
\* DELETE /delete/:id when the unlink failed.
UnlinkErrStatus(v) == IF v = 1 THEN 500 ELSE 200

\* An unlink completes: the file is removed and the callback runs with no
\* error.
UnlinkOk(u) ==
  /\ u \in unlinks
  /\ u.path \in files
  /\ Steps(u.rid)
  /\ files' = files \ {u.path}
  /\ unlinks' = unlinks \ {u}
  /\ req' = [Keep(u.rid) EXCEPT ![u.rid] =
       IF u.cb = "respond"
         THEN Respond([@ EXCEPT !.gone = @ \cup {u.path}], 200, "deleted")
         ELSE [@ EXCEPT !.gone = @ \cup {u.path}]]
  /\ UNCHANGED <<variant, now, fsvars, db, nextId, nextFile>>

\* Mutant of UnlinkErr: the callback only logs the error and sends no
\* response.
Mut_UnlinkErr(u) ==
  /\ u \in unlinks
  /\ Steps(u.rid)
  /\ unlinks' = unlinks \ {u}
  /\ req' = Keep(u.rid)
  /\ UNCHANGED <<variant, now, fsvars, db, files, nextId, nextFile>>

\* An unlink fails (the file is missing, or the file system refuses): the
\* callback runs with an error.
UnlinkErr(u) ==
  /\ u \in unlinks
  /\ Steps(u.rid)
  /\ unlinks' = unlinks \ {u}
  /\ req' = [Keep(u.rid) EXCEPT ![u.rid] =
       IF u.cb = "respond"
         THEN Respond(@, UnlinkErrStatus(variant), "blobDeleteFailed")
         ELSE @]
  /\ UNCHANGED <<variant, now, fsvars, db, files, nextId, nextFile>>

-----------------------------------------------------------------------------
\* DELETE /delete/:id

DeleteArrive(r, id) ==
  /\ Arrives(r)
  /\ req' = [Keep(r) EXCEPT ![r] =
       IF isValid(id)
         THEN [NoReq EXCEPT !.op = "delete", !.pc = "findById", !.id = id]
         ELSE Respond([NoReq EXCEPT !.op = "delete", !.id = id], 400, "invalidId")]
  /\ UNCHANGED <<variant, now, fsvars, db, files, unlinks, nextId, nextFile>>

\* Mutant of DeleteFindById: the file is unlinked as soon as the item is
\* found, before the document is deleted.
Mut_DeleteFindById_UnlinkFirst(r) ==
  /\ req[r].op = "delete" /\ req[r].pc = "findById"
  /\ Steps(r)
  /\ IF req[r].id \in DOMAIN db
       THEN /\ unlinks' = unlinks \cup {Unlink(r, db[req[r].id].filePath, "log")}
            /\ req' = [Keep(r) EXCEPT ![r] =
                 Issue([@ EXCEPT !.pc = "findByIdAndDelete",
                                 !.old = db[req[r].id].filePath],
                       db[req[r].id].filePath)]
       ELSE /\ unlinks' = unlinks
            /\ req' = [Keep(r) EXCEPT ![r] = Respond(@, 404, "notFound")]
  /\ UNCHANGED <<variant, now, fsvars, db, files, nextId, nextFile>>

\* Mutant of DeleteFindById: the check for a missing item is left out, and
\* the request goes on to delete and to unlink.
Mut_DeleteFindById_NoCheck(r) ==
  /\ req[r].op = "delete" /\ req[r].pc = "findById"
  /\ Steps(r)
  /\ req' = [Keep(r) EXCEPT ![r] =
       [@ EXCEPT !.pc = "findByIdAndDelete",
                 !.old = IF req[r].id \in DOMAIN db
                           THEN db[req[r].id].filePath ELSE NoFile]]
  /\ UNCHANGED <<variant, now, fsvars, db, files, unlinks, nextId, nextFile>>

\* findById resolves: 404 when there is no item, else findByIdAndDelete is
\* awaited.
DeleteFindById(r) ==
  /\ req[r].op = "delete" /\ req[r].pc = "findById"
  /\ Steps(r)
  /\ req' = [Keep(r) EXCEPT ![r] =
       IF req[r].id \in DOMAIN db
         THEN [@ EXCEPT !.pc = "findByIdAndDelete", !.old = db[req[r].id].filePath]
         ELSE Respond(@, 404, "notFound")]
  /\ UNCHANGED <<variant, now, fsvars, db, files, unlinks, nextId, nextFile>>

\* findById rejects: the catch block responds 500.
DeleteFindByIdFail(r) ==
  /\ req[r].op = "delete" /\ req[r].pc = "findById"
  /\ Steps(r)
  /\ req' = [Keep(r) EXCEPT ![r] = Respond(@, 500, "findFailed")]
  /\ UNCHANGED <<variant, now, fsvars, db, files, unlinks, nextId, nextFile>>

\* findByIdAndDelete resolves (with the document, or with null when it is
\* already gone): the file is unlinked, the callback will respond.
DeleteFindByIdAndDelete(r) ==
  /\ req[r].op = "delete" /\ req[r].pc = "findByIdAndDelete"
  /\ Steps(r)
  /\ db' = DbRemove(db, req[r].id)
  /\ unlinks' = unlinks \cup {Unlink(r, req[r].old, "respond")}
  /\ req' = [Keep(r) EXCEPT ![r] =
       Issue([@ EXCEPT !.pc = "unlink", !.metaOk = TRUE], req[r].old)]
  /\ UNCHANGED <<variant, now, fsvars, files, nextId, nextFile>>

\* findByIdAndDelete rejects: the catch block responds 500.
DeleteFindByIdAndDeleteFail(r) ==
  /\ req[r].op = "delete" /\ req[r].pc = "findByIdAndDelete"
  /\ Steps(r)
  /\ req' = [Keep(r) EXCEPT ![r] = Respond(@, 500, "metaDeleteFailed")]
  /\ UNCHANGED <<variant, now, fsvars, db, files, unlinks, nextId, nextFile>>

-----------------------------------------------------------------------------
\* PUT /update/:id

\* upload.single("file") runs first and writes the file, if the request has
\* one.  Then the handler: 400 for a malformed id; with a file, findById is
\* awaited; without one, 400 when updateData is empty, else findByIdAndUpdate
\* is awaited.
UpdateArrive(r, id, body, hasFile, name) ==
  /\ Arrives(r)
  /\ files' = IF hasFile THEN files \cup {nextFile} ELSE files
  /\ nextFile' = IF hasFile THEN nextFile + 1 ELSE nextFile
  /\ LET q == [NoReq EXCEPT !.op = "update", !.id = id, !.body = body,
                            !.file = IF hasFile THEN nextFile ELSE NoFile,
                            !.name = name]
     IN req' = [Keep(r) EXCEPT ![r] =
          IF ~isValid(id) THEN Respond(q, 400, "invalidId")
          ELSE IF hasFile THEN [q EXCEPT !.pc = "findById"]
          ELSE IF DOMAIN updateData(variant, body) = {}
            THEN Respond(q, 400, "noUpdateData")
          ELSE [q EXCEPT !.pc = "findByIdAndUpdate"]]
  /\ UNCHANGED <<variant, now, fsvars, db, unlinks, nextId>>

\* Mutant of UpdateFindById: with no item the response is 404 and the
\* uploaded file is left in place.
Mut_UpdateFindById(r) ==
  /\ req[r].op = "update" /\ req[r].pc = "findById"
  /\ Steps(r)
  /\ IF req[r].id \in DOMAIN db
       THEN LET oldPath == db[req[r].id].filePath
            IN /\ unlinks' = unlinks \cup {Unlink(r, oldPath, "log")}
               /\ req' = [Keep(r) EXCEPT ![r] =
                    Issue([@ EXCEPT !.pc = "findByIdAndUpdate", !.old = oldPath],
                          oldPath)]
       ELSE /\ unlinks' = unlinks
            /\ req' = [Keep(r) EXCEPT ![r] = Respond(@, 404, "notFound")]
  /\ UNCHANGED <<variant, now, fsvars, db, files, nextId, nextFile>>

\* findById resolves (the request has a file).  No item: the uploaded file
\* is unlinked, 404.  Else the old file is unlinked and findByIdAndUpdate is
\* awaited.
UpdateFindById(r) ==
  /\ req[r].op = "update" /\ req[r].pc = "findById"
  /\ Steps(r)
  /\ IF req[r].id \in DOMAIN db
       THEN LET oldPath == db[req[r].id].filePath
            IN /\ unlinks' = unlinks \cup {Unlink(r, oldPath, "log")}
               /\ req' = [Keep(r) EXCEPT ![r] =
                    Issue([@ EXCEPT !.pc = "findByIdAndUpdate", !.old = oldPath],
                          oldPath)]
       ELSE /\ unlinks' = unlinks \cup {Unlink(r, req[r].file, "log")}
            /\ req' = [Keep(r) EXCEPT ![r] = Respond(Issue(@, req[r].file), 404, "notFound")]
  /\ UNCHANGED <<variant, now, fsvars, db, files, nextId, nextFile>>

\* The catch block of the handler: the uploaded file, if any, is unlinked
\* and the response is 500.
UpdateCatch(r, tag) ==
  /\ unlinks' = IF req[r].file # NoFile
                  THEN unlinks \cup {Unlink(r, req[r].file, "log")} ELSE unlinks
  /\ req' = [Keep(r) EXCEPT ![r] =
       Respond(IF req[r].file # NoFile THEN Issue(@, req[r].file) ELSE @, 500, tag)]
  /\ UNCHANGED <<variant, now, fsvars, db, files, nextId, nextFile>>

\* findById rejects.
UpdateFindByIdFail(r) ==
  /\ req[r].op = "update" /\ req[r].pc = "findById"
  /\ Steps(r)
  /\ UpdateCatch(r, "findFailed")

\* findByIdAndUpdate resolves.  The update validators run first and reject
\* an empty section.  With no document the result is null: the uploaded
\* file, if any, is unlinked, 404.  Else the document is updated, 200.
UpdateFindByIdAndUpdate(r) ==
  /\ req[r].op = "update" /\ req[r].pc = "findByIdAndUpdate"
  /\ Steps(r)
  /\ LET upd == updateData(variant, req[r].body)
     IN IF ~UpdateValid(upd)
          THEN UpdateCatch(r, "validationFailed")
        ELSE IF req[r].id \notin DOMAIN db
          THEN /\ unlinks' = IF req[r].file # NoFile
                               THEN unlinks \cup {Unlink(r, req[r].file, "log")}
                               ELSE unlinks
               /\ req' = [Keep(r) EXCEPT ![r] =
                    Respond(IF req[r].file # NoFile THEN Issue(@, req[r].file) ELSE @,
                            404, "notFoundForUpdate")]
               /\ UNCHANGED <<variant, now, fsvars, db, files, nextId, nextFile>>
        ELSE /\ db' = [db EXCEPT ![req[r].id] =
                    ApplyUpdate(@, upd, FileDetails(req[r].file, req[r].name))]
             /\ req' = [Keep(r) EXCEPT ![r] =
                    Respond([@ EXCEPT !.metaOk = TRUE], 200, "updated")]
             /\ UNCHANGED <<variant, now, fsvars, files, unlinks, nextId, nextFile>>

\* findByIdAndUpdate rejects (the store fails): nothing is written.
UpdateFindByIdAndUpdateFail(r) ==
  /\ req[r].op = "update" /\ req[r].pc = "findByIdAndUpdate"
  /\ Steps(r)
  /\ UpdateCatch(r, "metaWriteFailed")

-----------------------------------------------------------------------------
\* GET /files/:section and GET /files/item/:id

\* The sections asked for.
ListSections == {Paintings, Others}

\* GalleryItem.find({ section: section }): the ids of the documents found.
Find(d, section) == {i \in DOMAIN d : d[i].section = section}

\* .sort({ uploadDate: -1 }): the documents ids of d, newest first.
RECURSIVE SortByUploadDate(_, _)
SortByUploadDate(d, ids) ==
  IF ids = {} THEN <<>>
  ELSE LET newest == CHOOSE i \in ids : \A j \in ids : d[j].uploadDate <= d[i].uploadDate
       IN <<newest>> \o SortByUploadDate(d, ids \ {newest})

\* GET /files/:section arrives: 400 without a section, else find is awaited.
ListArrive(r, section) ==
  /\ Arrives(r)
  /\ req' = [Keep(r) EXCEPT ![r] =
       IF ~Truthy(section)
         THEN Respond([NoReq EXCEPT !.op = "list"], 400, "noSection")
         ELSE [NoReq EXCEPT !.op = "list", !.pc = "find", !.section = section]]
  /\ UNCHANGED <<variant, now, fsvars, db, files, unlinks, nextId, nextFile>>

\* find resolves: the items found are sent, newest first, with status 200.
ListFind(r) ==
  /\ req[r].op = "list" /\ req[r].pc = "find"
  /\ Steps(r)
  /\ LET items == SortByUploadDate(db, Find(db, req[r].section))
     IN req' = [Keep(r) EXCEPT ![r] =
          Respond([@ EXCEPT !.out = [k \in 1..Len(items) |-> ItemJson(items[k], db[items[k]])]],
                  200, "listed")]
  /\ UNCHANGED <<variant, now, fsvars, db, files, unlinks, nextId, nextFile>>

\* find rejects: 500.
ListFindFail(r) ==
  /\ req[r].op = "list" /\ req[r].pc = "find"
  /\ Steps(r)
  /\ req' = [Keep(r) EXCEPT ![r] = Respond(@, 500, "findFailed")]
  /\ UNCHANGED <<variant, now, fsvars, db, files, unlinks, nextId, nextFile>>

\* GET /files/item/:id arrives: 400 for a malformed id, else findById is
\* awaited.
ItemArrive(r, id) ==
  /\ Arrives(r)
  /\ req' = [Keep(r) EXCEPT ![r] =
       IF isValid(id)
         THEN [NoReq EXCEPT !.op = "item", !.pc = "findById", !.id = id]
         ELSE Respond([NoReq EXCEPT !.op = "item", !.id = id], 400, "invalidId")]
  /\ UNCHANGED <<variant, now, fsvars, db, files, unlinks, nextId, nextFile>>

\* Mutant of ItemFindById: no test for a missing item; the response is 200
\* with nothing in it.
Mut_ItemFindById(r) ==
  /\ req[r].op = "item" /\ req[r].pc = "findById"
  /\ Steps(r)
  /\ req' = [Keep(r) EXCEPT ![r] =
       Respond([@ EXCEPT !.out = IF req[r].id \in DOMAIN db
                                   THEN <<ItemJson(req[r].id, db[req[r].id])>>
                                   ELSE <<>>],
               200, "found")]
  /\ UNCHANGED <<variant, now, fsvars, db, files, unlinks, nextId, nextFile>>

\* findById resolves: 404 when there is no item, else the item with 200.
ItemFindById(r) ==
  /\ req[r].op = "item" /\ req[r].pc = "findById"
  /\ Steps(r)
  /\ req' = [Keep(r) EXCEPT ![r] =
       IF req[r].id \in DOMAIN db
         THEN Respond([@ EXCEPT !.out = <<ItemJson(req[r].id, db[req[r].id])>>],
                      200, "found")
         ELSE Respond(@, 404, "notFound")]
  /\ UNCHANGED <<variant, now, fsvars, db, files, unlinks, nextId, nextFile>>

\* findById rejects: 500.
ItemFindByIdFail(r) ==
  /\ req[r].op = "item" /\ req[r].pc = "findById"
  /\ Steps(r)
  /\ req' = [Keep(r) EXCEPT ![r] = Respond(@, 500, "findFailed")]
  /\ UNCHANGED <<variant, now, fsvars, db, files, unlinks, nextId, nextFile>>

-----------------------------------------------------------------------------
\* GET /stats (variant 2; variant 1 has no such route)

\* GalleryItem.aggregate([{ $group: { _id: "$section", count: { $sum: 1 } } }])
\* reduced to an object: one key for each section that some document has.
GroupBySection(d) ==
  [s \in {d[i].section : i \in DOMAIN d} |->
     Cardinality({i \in DOMAIN d : d[i].section = s})]

\* The days of the two windows of recent uploads.
Week == 7
Month == 30

\* GalleryItem.countDocuments({ uploadDate: { $gte: since } })
CountSince(d, since) == Cardinality({i \in DOMAIN d : d[i].uploadDate >= since})

\* The stats object, before any of its counts is known.
NoStats == [sections |-> EmptyBody, totalItems |-> 0, recentUploads |-> 0, monthlyUploads |-> 0]

\* GET /stats arrives: aggregate is awaited.  In variant 1 no route matches
\* and the last middleware responds 404.
StatsArrive(r) ==
  /\ Arrives(r)
  /\ req' = [Keep(r) EXCEPT ![r] =
       IF variant = 1
         THEN Respond([NoReq EXCEPT !.op = "stats"], 404, "routeNotFound")
         ELSE [NoReq EXCEPT !.op = "stats", !.pc = "aggregate", !.out = <<NoStats>>]]
  /\ UNCHANGED <<variant, now, fsvars, db, files, unlinks, nextId, nextFile>>

\* aggregate resolves: countDocuments() is awaited.
StatsAggregate(r) ==
  /\ req[r].op = "stats" /\ req[r].pc = "aggregate"
  /\ Steps(r)
  /\ req' = [Keep(r) EXCEPT ![r] =
       [@ EXCEPT !.pc = "countDocuments", !.out[1].sections = GroupBySection(db)]]
  /\ UNCHANGED <<variant, now, fsvars, db, files, unlinks, nextId, nextFile>>

\* countDocuments() resolves: the count of the last 7 days is awaited.
StatsCountDocuments(r) ==
  /\ req[r].op = "stats" /\ req[r].pc = "countDocuments"
  /\ Steps(r)
  /\ req' = [Keep(r) EXCEPT ![r] =
       [@ EXCEPT !.pc = "countRecent", !.out[1].totalItems = Cardinality(DOMAIN db)]]
  /\ UNCHANGED <<variant, now, fsvars, db, files, unlinks, nextId, nextFile>>

\* The count of the last 7 days resolves (the time is counted in requests):
\* the count of the last 30 days is awaited.
StatsCountRecent(r) ==
  /\ req[r].op = "stats" /\ req[r].pc = "countRecent"
  /\ Steps(r)
  /\ req' = [Keep(r) EXCEPT ![r] =
       [@ EXCEPT !.pc = "countMonthly", !.out[1].recentUploads = CountSince(db, nreq - Week)]]
  /\ UNCHANGED <<variant, now, fsvars, db, files, unlinks, nextId, nextFile>>

\* The count of the last 30 days resolves: the stats are sent with 200.
StatsCountMonthly(r) ==
  /\ req[r].op = "stats" /\ req[r].pc = "countMonthly"
  /\ Steps(r)
  /\ req' = [Keep(r) EXCEPT ![r] =
       Respond([@ EXCEPT !.out[1].monthlyUploads = CountSince(db, nreq - Month)],
               200, "stats")]
  /\ UNCHANGED <<variant, now, fsvars, db, files, unlinks, nextId, nextFile>>

\* One of the four awaited calls rejects: 500.
StatsFail(r) ==
  /\ req[r].op = "stats"
  /\ req[r].pc \in {"aggregate", "countDocuments", "countRecent", "countMonthly"}
  /\ Steps(r)
  /\ req' = [Keep(r) EXCEPT ![r] = Respond([@ EXCEPT !.out = <<>>], 500, "statsFailed")]
  /\ UNCHANGED <<variant, now, fsvars, db, files, unlinks, nextId, nextFile>>

-----------------------------------------------------------------------------
\* GET /:section/:slug

\* The slug deriver (spec 4.3); the servers have no code for it, a client
\* computes it to build the path.
Hyphen == "-"
Digits == <<"0", "1", "2", "3", "4", "5", "6", "7", "8", "9">>
SlugChars == Range(LowerCase) \cup Range(Digits)

\* Every character outside the allow-list becomes a hyphen.
Hyphenate(s) == [k \in 1..Len(s) |-> IF s[k] \in SlugChars THEN s[k] ELSE Hyphen]

\* A run of hyphens becomes one hyphen.
RECURSIVE Collapse(_)
Collapse(s) ==
  IF Len(s) < 2 THEN s
  ELSE IF s[1] = Hyphen /\ s[2] = Hyphen THEN Collapse(Tail(s))
  ELSE <<s[1]>> \o Collapse(Tail(s))

\* Leading and trailing hyphens are trimmed.
RECURSIVE TrimHyphens(_)
TrimHyphens(s) ==
  IF s # <<>> /\ Head(s) = Hyphen THEN TrimHyphens(Tail(s))
  ELSE IF s # <<>> /\ s[Len(s)] = Hyphen THEN TrimHyphens(SubSeq(s, 1, Len(s) - 1))
  ELSE s

\* slug(text): lowercase, allow-list, collapse, trim.
slug(s) == TrimHyphens(Collapse(Hyphenate(toLowerCase(s))))

\* The file name without its extension.
filenameStemOf(name) ==
  LET dots == {k \in 2..Len(name) : name[k] = "."}
  IN IF dots = {} THEN name
     ELSE SubSeq(name, 1, (CHOOSE k \in dots : \A j \in dots : j <= k) - 1)

\* slugFor(section, title, originalName).
slugFor(section, title, originalName) ==
  IF section = Paintings
    THEN slug(title) \o <<Hyphen>> \o slug(filenameStemOf(originalName))
  ELSE IF slug(title) # <<>> THEN slug(title)
  ELSE section \o <<Hyphen>> \o filenameStemOf(originalName)

\* The slug of a stored document.
SlugOf(doc) == slugFor(doc.section, doc.title, doc.originalName)

\* The items of a section whose slug is the one asked for.
FindBySlug(d, section, sl) == {i \in Find(d, section) : SlugOf(d[i]) = sl}

\* A slug that no item has.
GhostSlug == <<"n", "o", "n", "e">>

\* The paths asked for: the slug of a stored item, or one of no item, under
\* either section.
SlugPaths ==
  {<<section, sl>> : section \in ListSections,
                      sl \in {SlugOf(db[i]) : i \in DOMAIN db} \cup {GhostSlug}}

\* GET /:section/:slug matches no registered route and falls through to the
\* last middleware, which responds 404.
RouteNotFound(r, section, sl) ==
  /\ Arrives(r)
  /\ req' = [Keep(r) EXCEPT ![r] =
       Respond([NoReq EXCEPT !.op = "slug", !.section = section, !.slug = sl],
               404, "routeNotFound")]
  /\ UNCHANGED <<variant, now, fsvars, db, files, unlinks, nextId, nextFile>>

-----------------------------------------------------------------------------

Next ==
  \/ \E r \in Reqs, in \in UploadInputs :
       UploadArrive(r, in[1], in[2], in[3])
  \/ \E r \in Reqs : UploadSave(r)
  \/ \E r \in Reqs : UploadSaveFail(r)
  \/ \E r \in Reqs, op \in MulterRoutes : MulterFileFilter(r, op)
  \/ \E r \in Reqs, op \in MulterRoutes : MulterLimit(r, op)
  \/ \E r \in Reqs : MulterAbort(r)
  \/ \E r \in Reqs, id \in TargetIds : DeleteArrive(r, id)
  \/ \E r \in Reqs : DeleteFindById(r)
  \/ \E r \in Reqs : DeleteFindByIdFail(r)
  \/ \E r \in Reqs : DeleteFindByIdAndDelete(r)
  \/ \E r \in Reqs : DeleteFindByIdAndDeleteFail(r)
  \/ \E r \in Reqs, id \in TargetIds, in \in UpdateInputs :
       UpdateArrive(r, id, in[1], in[2], in[3])
  \/ \E r \in Reqs : UpdateFindById(r)
  \/ \E r \in Reqs : UpdateFindByIdFail(r)
  \/ \E r \in Reqs : UpdateFindByIdAndUpdate(r)
  \/ \E r \in Reqs : UpdateFindByIdAndUpdateFail(r)
  \/ \E u \in unlinks : UnlinkOk(u)
  \/ \E u \in unlinks : UnlinkErr(u)
  \/ \E r \in Reqs, section \in ListSections : ListArrive(r, section)
  \/ \E r \in Reqs : ListFind(r)
  \/ \E r \in Reqs : ListFindFail(r)
  \/ \E r \in Reqs, id \in TargetIds : ItemArrive(r, id)
  \/ \E r \in Reqs : ItemFindById(r)
  \/ \E r \in Reqs : ItemFindByIdFail(r)
  \/ \E r \in Reqs : StatsArrive(r)
  \/ \E r \in Reqs : StatsAggregate(r)
  \/ \E r \in Reqs : StatsCountDocuments(r)
  \/ \E r \in Reqs : StatsCountRecent(r)
  \/ \E r \in Reqs : StatsCountMonthly(r)
  \/ \E r \in Reqs : StatsFail(r)
  \/ \E r \in Reqs, p \in SlugPaths : RouteNotFound(r, p[1], p[2])

Spec == Init /\ [][Next]_vars

\* A continuation of the handler of request r runs: a promise it awaits
\* settles (resolved or rejected), or an fs.unlink it called calls back.
Continues(r) ==
  \/ UploadSave(r) \/ UploadSaveFail(r)
  \/ MulterAbort(r)
  \/ DeleteFindById(r) \/ DeleteFindByIdFail(r)
  \/ DeleteFindByIdAndDelete(r) \/ DeleteFindByIdAndDeleteFail(r)
  \/ UpdateFindById(r) \/ UpdateFindByIdFail(r)
  \/ UpdateFindByIdAndUpdate(r) \/ UpdateFindByIdAndUpdateFail(r)
  \/ ListFind(r) \/ ListFindFail(r)
  \/ ItemFindById(r) \/ ItemFindByIdFail(r)
  \/ StatsAggregate(r) \/ StatsCountDocuments(r) \/ StatsCountRecent(r)
  \/ StatsCountMonthly(r) \/ StatsFail(r)
  \/ \E u \in unlinks : u.rid = r /\ (UnlinkOk(u) \/ UnlinkErr(u))

\* The event loop runs every continuation that is ready: each store call
\* settles and each fs.unlink calls back.
\* The liveness of the handlers is checked from a store of one item, with
\* any request first and, racing it or after it, a delete.
LiveInit == Init /\ nextId = 2

LiveNext ==
  \/ nreq = 0 /\ Next
  \/ nreq > 0 /\ \E r \in Reqs, id \in TargetIds : DeleteArrive(r, id)
  \/ \E r \in Reqs : Continues(r)

LiveSpec == LiveInit /\ [][LiveNext]_vars /\ \A r \in Reqs : WF_vars(Continues(r))

\* The server when no store call fails: no promise of the collection is
\* rejected and the file system refuses nothing.  An unlink of a file that
\* is already gone still calls back with an error (ENOENT).
UnlinkGone(u) == u.path \notin files /\ UnlinkErr(u)

NoFailNext ==
  \/ \E r \in Reqs, in \in UploadInputs :
       UploadArrive(r, in[1], in[2], in[3])
  \/ \E r \in Reqs : UploadSave(r)
  \/ \E r \in Reqs, op \in MulterRoutes : MulterFileFilter(r, op)
  \/ \E r \in Reqs, op \in MulterRoutes : MulterLimit(r, op)
  \/ \E r \in Reqs : MulterAbort(r)
  \/ \E r \in Reqs, id \in TargetIds : DeleteArrive(r, id)
  \/ \E r \in Reqs : DeleteFindById(r)
  \/ \E r \in Reqs : DeleteFindByIdAndDelete(r)
  \/ \E r \in Reqs, id \in TargetIds, in \in UpdateInputs :
       UpdateArrive(r, id, in[1], in[2], in[3])
  \/ \E r \in Reqs : UpdateFindById(r)
  \/ \E r \in Reqs : UpdateFindByIdAndUpdate(r)
  \/ \E u \in unlinks : UnlinkOk(u)
  \/ \E u \in unlinks : UnlinkGone(u)

NoFailSpec == Init /\ [][NoFailNext]_vars

-----------------------------------------------------------------------------
\* The server of src/unnamed/part_001.  Its handlers use the synchronous
\* calls of fs and run without interruption; requests are taken one at a
\* time.

\* Number of requests in a run of FsSpec.
MaxFsRequests == 4

\* The value of variant for this server.
Filesystem == 3

Temp == <<"t", "e", "m", "p">>
JsonExt == <<".", "j", "s", "o", "n">>

\* The extensions that GET /files/:section and GET /stats take for images.
ImageExtensions ==
  {<<".", "j", "p", "g">>, <<".", "j", "p", "e", "g">>, <<".", "p", "n", "g">>,
   <<".", "g", "i", "f">>, <<".", "b", "m", "p">>, <<".", "w", "e", "b", "p">>}

\* path.extname of a file name: from its last "." to its end; empty when
\* there is no "." past the first character.
extname(s) ==
  LET dots == {k \in 2..Len(s) : s[k] = "."}
  IN IF dots = {} THEN <<>>
     ELSE SubSeq(s, CHOOSE k \in dots : \A j \in dots : j <= k, Len(s))

\* The test of the extension made by GET /files/:section and GET /stats.
isImage(ext) == toLowerCase(ext) \in ImageExtensions

\* The original names of the files sent: images of type image/jpeg,
\* image/png and image/tiff.
FsNames ==
  {<<"a", ".", "j", "p", "g">>, <<"b", ".", "P", "N", "G">>,
   <<"c", ".", "t", "i", "f", "f">>}

\* An upload to the section named as the directory of multer.
TempBody == [section |-> Temp]

\* The uploads: <<body, the request has a file, originalname of the file>>.
FsUploadInputs ==
  {<<EmptyBody, FALSE, <<>> >>}
    \cup {<<body, TRUE, name>> : body \in {EmptyBody, FullBody, TempBody},
                                  name \in FsNames}

\* A file of a directory: its name is base followed by ext; birthtime is
\* the time of its creation; sidecar says that saveMetadata wrote it, and
\* metadata is then the object it holds.
Entry(base, ext, birthtime, sidecar) ==
  [base |-> base, ext |-> ext, birthtime |-> birthtime, sidecar |-> sidecar,
   metadata |-> EmptyBody]

\* The file written by saveMetadata for the image named base: getMetadataPath
\* puts ".json" in place of the extension.
SidecarEntry(base, birthtime, metadata) ==
  [Entry(base, JsonExt, birthtime, TRUE) EXCEPT !.metadata = metadata]

\* The file of directory dir named base followed by ext, if there is one.
At(tree, dir, base, ext) ==
  IF dir \in DOMAIN tree
    THEN {e \in tree[dir] : e.base = base /\ e.ext = ext}
    ELSE {}

\* loadMetadata for the image e of directory dir: the object of its sidecar,
\* null (here the empty object that the listing puts in its place) when
\* there is none.
loadMetadata(tree, dir, e) ==
  LET found == At(tree, dir, e.base, JsonExt)
  IN IF found = {} THEN EmptyBody ELSE (CHOOSE m \in found : TRUE).metadata

\* fs.mkdirSync(dir, { recursive: true })
mkdirSync(tree, dir) ==
  [d \in DOMAIN tree \cup {dir} |-> IF d \in DOMAIN tree THEN tree[d] ELSE {}]

\* A file is written in (or moved to) directory dir, which exists.
AddEntry(tree, dir, e) == [tree EXCEPT ![dir] = @ \cup {e}]

\* fs.unlinkSync of the files es of directory dir.
RemoveEntries(tree, dir, es) ==
  IF dir \in DOMAIN tree THEN [tree EXCEPT ![dir] = @ \ es] ELSE tree

\* res.status(status).json(...) of this server.
FsRespond(q, status) == [q EXCEPT !.pc = "done", !.status = status]

\* A request is taken when no handler is running.
FsArrives ==
  /\ fsclock < MaxFsRequests
  /\ fsreq.pc \in {"idle", "done"}
  /\ fsclock' = fsclock + 1

\* POST /upload, upload.single("file").  Without a file the handler
\* responds 400.  Else disk storage ensures uploads/temp and writes the file
\* there, named by a unique suffix followed by the extension of its original
\* name; the handler is to run.
FsUploadMulter(body, hasFile, name) ==
  /\ FsArrives
  /\ IF hasFile
       THEN /\ uploads' = AddEntry(mkdirSync(uploads, Temp), Temp,
                                   Entry(fsclock', extname(name), fsclock', FALSE))
            /\ fsreq' = [NoFsReq EXCEPT !.op = "upload", !.pc = "handler",
                           !.body = body, !.name = name,
                           !.file = <<fsclock', extname(name)>>]
       ELSE /\ uploads' = uploads
            /\ fsreq' = FsRespond([NoFsReq EXCEPT !.op = "upload", !.body = body], 400)
  /\ UNCHANGED <<variant, now, db, files, unlinks, req, nreq, nextId, nextFile, solo, pre>>

\* fileFilter refuses a file whose MIME type does not start with "image/":
\* nothing is written, and the error handler of this server responds 500.
FsMulterFileFilter ==
  /\ FsArrives
  /\ fsreq' = FsRespond([NoFsReq EXCEPT !.op = "upload"], 500)
  /\ UNCHANGED <<variant, now, db, files, unlinks, req, nreq, nextId, nextFile, solo, pre, uploads>>

\* The section of an upload: req.body.section || "others".
FsSection(body) ==
  IF Has(body, "section") /\ Truthy(body.section) THEN body.section ELSE Others

\* req.body.title || "" and req.body.description || "".
FsMetadata(body) ==
  [title |-> IF Has(body, "title") THEN body.title ELSE <<>>,
   description |-> IF Has(body, "description") THEN body.description ELSE <<>>]

\* title || description of an upload: a sidecar is written.
FsHasMetadata(body) ==
  \/ Has(body, "title") /\ Truthy(body.title)
  \/ Has(body, "description") /\ Truthy(body.description)

\* The handler of POST /upload: the directory of the section is ensured, the
\* file is moved there from uploads/temp, saveMetadata writes the sidecar
\* when there is a title or a description, and the response is 201.
FsUploadHandler ==
  /\ fsreq.op = "upload" /\ fsreq.pc = "handler"
  /\ LET dir == FsSection(fsreq.body)
         temp == At(uploads, Temp, fsreq.file[1], fsreq.file[2])
         file == CHOOSE e \in temp : TRUE
         moved == AddEntry(mkdirSync(RemoveEntries(uploads, Temp, temp), dir), dir, file)
     IN /\ uploads' = IF FsHasMetadata(fsreq.body)
                        THEN AddEntry(moved, dir,
                                      SidecarEntry(file.base, fsclock, FsMetadata(fsreq.body)))
                        ELSE moved
        /\ fsreq' = FsRespond([fsreq EXCEPT !.section = dir, !.out = <<fsreq.file>>], 201)
  /\ UNCHANGED <<variant, now, db, files, unlinks, req, nreq, nextId, nextFile, solo, pre, fsclock>>

\* The handler of POST /upload when the writeFileSync of saveMetadata
\* throws: saveMetadata catches the error and logs it; the file has been
\* moved, there is no sidecar, and the response is 201.
FsUploadHandlerSaveMetadataFail ==
  /\ fsreq.op = "upload" /\ fsreq.pc = "handler"
  /\ FsHasMetadata(fsreq.body)
  /\ LET dir == FsSection(fsreq.body)
         temp == At(uploads, Temp, fsreq.file[1], fsreq.file[2])
         file == CHOOSE e \in temp : TRUE
     IN /\ uploads' = AddEntry(mkdirSync(RemoveEntries(uploads, Temp, temp), dir), dir, file)
        /\ fsreq' = FsRespond([fsreq EXCEPT !.section = dir, !.out = <<fsreq.file>>], 201)
  /\ UNCHANGED <<variant, now, db, files, unlinks, req, nreq, nextId, nextFile, solo, pre, fsclock>>

\* The handler of POST /upload when renameSync throws: the directory of the
\* section has been made, the catch block removes the file from uploads/temp
\* and responds 500.
FsUploadHandlerFail ==
  /\ fsreq.op = "upload" /\ fsreq.pc = "handler"
  /\ uploads' = mkdirSync(RemoveEntries(uploads, Temp, At(uploads, Temp, fsreq.file[1], fsreq.file[2])),
                          FsSection(fsreq.body))
  /\ fsreq' = FsRespond(fsreq, 500)
  /\ UNCHANGED <<variant, now, db, files, unlinks, req, nreq, nextId, nextFile, solo, pre, fsclock>>

\* filesWithData.sort((a, b) => b.creationTime - a.creationTime): the files
\* es, newest first.
RECURSIVE SortByCreationTime(_)
SortByCreationTime(es) ==
  IF es = {} THEN <<>>
  ELSE LET newest == CHOOSE e \in es : \A f \in es : f.birthtime <= e.birthtime
       IN <<newest>> \o SortByCreationTime(es \ {newest})

\* The files listed for a section: none when the directory is missing; else
\* the files of the directory that have the extension of an image, newest
\* first.
FsFound(tree, section) ==
  IF section \in DOMAIN tree
    THEN SortByCreationTime({e \in tree[section] : isImage(e.ext)})
    ELSE <<>>

\* GET /files/:section
FsList(section) ==
  /\ FsArrives
  /\ LET found == FsFound(uploads, section)
     IN fsreq' = FsRespond([NoFsReq EXCEPT !.op = "list", !.section = section,
                              !.out = [k \in 1..Len(found) |->
                                         [filename |-> <<found[k].base, found[k].ext>>,
                                          metadata |-> loadMetadata(uploads, section, found[k]),
                                          creationTime |-> found[k].birthtime]]],
                           200)
  /\ UNCHANGED <<variant, now, db, files, unlinks, req, nreq, nextId, nextFile, solo, pre, uploads>>

\* GET /files/:section when readdirSync or statSync throws: 500.
FsListFail(section) ==
  /\ FsArrives
  /\ section \in DOMAIN uploads
  /\ fsreq' = FsRespond([NoFsReq EXCEPT !.op = "list", !.section = section], 500)
  /\ UNCHANGED <<variant, now, db, files, unlinks, req, nreq, nextId, nextFile, solo, pre, uploads>>

\* The sections named by the requests.
FsSections == {Paintings, Others, Temp}

\* The files named by DELETE /delete: none, one that does not exist, those
\* stored by the uploads.
NoName == <<>>
GhostName == <<0, <<".", "j", "p", "g">> >>
FsFilenames ==
  {NoName, GhostName}
    \cup {<<e.base, e.ext>> : e \in {f \in UNION {uploads[d] : d \in DOMAIN uploads} : ~f.sidecar}}

\* DELETE /delete with { filename, section }: 400 when one is missing; the
\* file and its sidecar are removed, those that exist; 200 when one was
\* removed, else 404.
FsDelete(filename, section) ==
  /\ FsArrives
  /\ LET q == [NoFsReq EXCEPT !.op = "delete", !.section = section, !.file = filename]
     IN IF filename = NoName \/ ~Truthy(section)
          THEN /\ uploads' = uploads
               /\ fsreq' = FsRespond(q, 400)
          ELSE LET image == At(uploads, section, filename[1], filename[2])
                   metadata == At(uploads, section, filename[1], JsonExt)
               IN /\ uploads' = RemoveEntries(uploads, section, image \cup metadata)
                  /\ fsreq' = FsRespond(q, IF image \cup metadata # {} THEN 200 ELSE 404)
  /\ UNCHANGED <<variant, now, db, files, unlinks, req, nreq, nextId, nextFile, solo, pre>>

\* DELETE /delete when the unlinkSync of the file throws: 500.
FsDeleteFail(filename, section) ==
  /\ FsArrives
  /\ filename # NoName
  /\ At(uploads, section, filename[1], filename[2]) # {}
  /\ fsreq' = FsRespond([NoFsReq EXCEPT !.op = "delete", !.section = section,
                           !.file = filename], 500)
  /\ UNCHANGED <<variant, now, db, files, unlinks, req, nreq, nextId, nextFile, solo, pre, uploads>>

\* DELETE /delete when the unlinkSync of the sidecar throws: the file has
\* been removed, the sidecar stays, 500.
FsDeleteMetadataFail(filename, section) ==
  /\ FsArrives
  /\ filename # NoName
  /\ At(uploads, section, filename[1], JsonExt) # {}
  /\ filename[2] # JsonExt
  /\ uploads' = RemoveEntries(uploads, section, At(uploads, section, filename[1], filename[2]))
  /\ fsreq' = FsRespond([NoFsReq EXCEPT !.op = "delete", !.section = section,
                           !.file = filename], 500)
  /\ UNCHANGED <<variant, now, db, files, unlinks, req, nreq, nextId, nextFile, solo, pre>>

\* The stats object of GET /stats: for every directory of uploads/ but temp,
\* the number of its files that have the extension of an image.
FsStatsOf(tree) ==
  [d \in DOMAIN tree \ {Temp} |-> Cardinality({e \in tree[d] : isImage(e.ext)})]

\* GET /stats
FsStats ==
  /\ FsArrives
  /\ fsreq' = FsRespond([NoFsReq EXCEPT !.op = "stats", !.out = <<FsStatsOf(uploads)>>], 200)
  /\ UNCHANGED <<variant, now, db, files, unlinks, req, nreq, nextId, nextFile, solo, pre, uploads>>

\* GET /stats when readdirSync or statSync throws: 500.
FsStatsFail ==
  /\ FsArrives
  /\ DOMAIN uploads # {}
  /\ fsreq' = FsRespond([NoFsReq EXCEPT !.op = "stats"], 500)
  /\ UNCHANGED <<variant, now, db, files, unlinks, req, nreq, nextId, nextFile, solo, pre, uploads>>

\* The server starts with no directory in uploads/.
FsInit ==
  /\ variant = Filesystem
  /\ db = EmptyDb
  /\ files = {}
  /\ unlinks = {}
  /\ req = [r \in Reqs |-> NoReq]
  /\ nreq = 0
  /\ nextId = 1
  /\ nextFile = 1
  /\ solo = 0
  /\ pre = NoPre
  /\ uploads = EmptyTree
  /\ fsreq = NoFsReq
  /\ fsclock = 0
  /\ now = 0

FsNext ==
  \/ \E in \in FsUploadInputs : FsUploadMulter(in[1], in[2], in[3])
  \/ FsMulterFileFilter
  \/ FsUploadHandler
  \/ FsUploadHandlerSaveMetadataFail
  \/ FsUploadHandlerFail
  \/ \E section \in FsSections : FsList(section)
  \/ \E section \in FsSections : FsListFail(section)
  \/ \E filename \in FsFilenames, section \in FsSections \cup {<<>>} : FsDelete(filename, section)
  \/ \E filename \in FsFilenames, section \in FsSections : FsDeleteFail(filename, section)
  \/ \E filename \in FsFilenames, section \in FsSections :
       FsDeleteMetadataFail(filename, section)
  \/ FsStats
  \/ FsStatsFail

FsSpec == FsInit /\ [][FsNext]_vars

-----------------------------------------------------------------------------
\* The names that multer's disk storage gives to the files (server.js
\* 108-119, 629-640).  In Spec a new file has a fresh name; here the name is
\* computed as the filename function computes it, from Date.now(), from
\* Math.random() and from the original name.

\* The last value of Date.now() in a run, and the largest value taken for
\* Math.round(Math.random() * 1E9).
MaxNow == 1
MaxRandom == 1

\* file.originalname.replace(/\s+/g, '_')
RECURSIVE safeOriginalName(_)
safeOriginalName(s) ==
  IF s = <<>> THEN <<>>
  ELSE IF Head(s) = Space
    THEN <<"_">> \o safeOriginalName(TrimLeft(s))
  ELSE <<Head(s)>> \o safeOriginalName(Tail(s))

\* uniqueSuffix + '-' + safeOriginalName
MulterFilename(t, rand, originalname) ==
  <<t, "-", rand, "-">> \o safeOriginalName(originalname)

\* The original names of the files sent.
SpacedNames == {<<"x">>, <<"x", " ", "y">>, <<"x", "_", "y">>}

\* A millisecond passes.
Tick ==
  /\ now < MaxNow
  /\ now' = now + 1
  /\ UNCHANGED <<variant, fsvars, db, files, unlinks, req, nreq, nextId, nextFile, solo, pre>>

\* POST /upload with a file: disk storage writes the file under the name
\* that the filename function gives it, over a file of that name if there
\* is one; the handler builds the document and awaits save().
DiskStorageUpload(r, body, name, rand) ==
  /\ Arrives(r)
  /\ LET file == MulterFilename(now, rand, name)
     IN /\ files' = files \cup {file}
        /\ req' = [Keep(r) EXCEPT ![r] =
             [NoReq EXCEPT !.op = "upload", !.pc = "save", !.id = nextId,
                           !.body = body, !.file = file, !.name = name]]
  /\ nextId' = nextId + 1
  /\ UNCHANGED <<variant, now, fsvars, db, unlinks, nextFile>>

\* The server starts with an empty collection and an empty directory.
NameInit == Init /\ nextId = 1

NameNext ==
  \/ Tick
  \/ \E r \in Reqs, body \in {EmptyBody, FullBody}, name \in SpacedNames,
        rand \in 0..MaxRandom : DiskStorageUpload(r, body, name, rand)
  \/ \E r \in Reqs : UploadSave(r)
  \/ \E r \in Reqs : UploadSaveFail(r)
  \/ \E u \in unlinks : UnlinkOk(u)
  \/ \E u \in unlinks : UnlinkErr(u)

NameSpec == NameInit /\ [][NameNext]_vars

-----------------------------------------------------------------------------
\* Vocabulary of the properties.


\* Request r has an unlink that has not completed.
Pending(r) == \E u \in unlinks : u.rid = r

\* Request r has responded, and since it arrived nothing but r has acted:
\* pre holds the stores as they were before the request.
DoneAlone(r) == req[r].pc = "done" /\ solo = r

\* A store call of request r failed (rejected promise).
StoreFailed(r) ==
  req[r].tag \in {"findFailed", "metaWriteFailed", "metaDeleteFailed", "saveFailed",
                  "statsFailed"}

-----------------------------------------------------------------------------
\* C1: in PUT /update/:id with a replacement file, the old file is unlinked
\* only after findByIdAndUpdate has succeeded: no update request has its old
\* file removed by its own unlink while its metadata write has not committed.
C1_OldFileUnlinkedOnlyAfterCommit ==
  \A r \in Reqs :
    (req[r].op = "update" /\ req[r].old \in req[r].gone) => req[r].metaOk

\* C2: in every reachable state the filePath of every GalleryItem names a
\* file that exists in the upload directory.
C2_NoDanglingRecord == \A id \in DOMAIN db : db[id].filePath \in files

\* C3: when PUT /update/:id with a replacement file fails at the metadata
\* write, the unlink of the new file has been issued, the collection is as
\* before the request and the original file, which existed before the
\* request, still exists.
C3_FailedUpdateLeavesOriginal ==
  \A r \in Reqs :
    (/\ DoneAlone(r)
     /\ req[r].op = "update" /\ req[r].file # NoFile
     /\ req[r].tag \in {"metaWriteFailed", "validationFailed"}
     /\ req[r].old \in pre.files)
    => /\ req[r].file \in Range(req[r].issued)
       /\ db = pre.db
       /\ req[r].old \in files

C5_DeleteMetadataFirst ==
  \A r \in Reqs :
    req[r].op = "delete"
    => /\ req[r].issued # <<>> => (req[r].metaOk /\ req[r].id \notin DOMAIN db)
       /\ req[r].tag = "metaDeleteFailed"
            => /\ req[r].status = 500
               /\ req[r].issued = <<>> /\ ~Pending(r)
               /\ solo = r => /\ req[r].id \in DOMAIN db
                              /\ db = pre.db /\ files = pre.files

C5_Witness ==
  \E r \in Reqs :
    /\ req[r].op = "delete" /\ req[r].tag = "metaDeleteFailed" /\ solo = r
    /\ req[r].id \in DOMAIN db /\ db[req[r].id].filePath \in files

\* C6: when DELETE /delete/:id has deleted the document and the unlink of
\* the file fails, the response is 200 (with a warning), not 500, and the
\* unlink was issued once and is not issued again.
C6_PartialFailureIs200 ==
  \A r \in Reqs :
    req[r].tag = "blobDeleteFailed"
    => /\ req[r].status = 200
       /\ Len(req[r].issued) = 1 /\ ~Pending(r)

\* C7: DELETE /delete/:id for a valid id that matches no document responds
\* 404 (unless the lookup itself fails) and changes neither store: the
\* collection and the files are as before the request, and no unlink is issued.
C7_DeleteMissingIsNoOp ==
  \A r \in Reqs :
    (/\ DoneAlone(r) /\ req[r].op = "delete"
     /\ isValid(req[r].id) /\ req[r].id \notin DOMAIN pre.db)
    => /\ req[r].tag \in {"notFound", "findFailed"}
       /\ req[r].tag = "notFound" => req[r].status = 404
       /\ req[r].tag = "findFailed" => req[r].status = 500
       /\ db = pre.db /\ files = pre.files
       /\ req[r].issued = <<>> /\ ~Pending(r)

C7_Witness ==
  \E r \in Reqs :
    /\ DoneAlone(r) /\ req[r].op = "delete" /\ req[r].tag = "notFound"
    /\ req[r].status = 404 /\ DOMAIN db # {} /\ files # {}

\* C8: after a PUT /update/:id that responds 200, every body field that was
\* present with the empty string is the empty string in the stored item, and
\* every body field that was absent has the value it had before the request.
C8_EmptyStringOverwrites ==
  \A r \in Reqs :
    (/\ DoneAlone(r) /\ req[r].op = "update" /\ req[r].status = 200
     /\ req[r].id \in DOMAIN pre.db)
    => /\ req[r].id \in DOMAIN db
       /\ \A f \in BodyFields :
            /\ (Has(req[r].body, f) /\ req[r].body[f] = <<>>)
                 => db[req[r].id][f] = <<>>
            /\ ~Has(req[r].body, f)
                 => db[req[r].id][f] = pre.db[req[r].id][f]

\* C9: a PUT /update/:id that supplies only title, and no file, leaves the
\* item's description, materials, paintingSize, section, filename and
\* filePath as they were before the request.
C9_TitleOnlyUpdate ==
  \A r \in Reqs :
    (/\ DoneAlone(r) /\ req[r].op = "update"
     /\ DOMAIN req[r].body = {"title"} /\ req[r].file = NoFile
     /\ req[r].id \in DOMAIN pre.db)
    => /\ req[r].id \in DOMAIN db
       /\ \A f \in {"description", "materials", "paintingSize", "section",
                    "filename", "filePath"} :
            db[req[r].id][f] = pre.db[req[r].id][f]
       /\ files = pre.files

C9_Witness ==
  \E r \in Reqs :
    /\ DoneAlone(r) /\ req[r].op = "update" /\ req[r].status = 200
    /\ DOMAIN req[r].body = {"title"} /\ req[r].file = NoFile
    /\ req[r].id \in DOMAIN pre.db
    /\ db[req[r].id].title # pre.db[req[r].id].title
    /\ db[req[r].id].description # <<>>

\* An update of a valid id that matched no document when it arrived, has
\* responded, and whose store calls did not fail: no rejected promise, and
\* the unlink of the file it uploaded, if any, has succeeded.
UpdateOfMissing(r) ==
  /\ DoneAlone(r) /\ req[r].op = "update"
  /\ isValid(req[r].id) /\ req[r].id \notin DOMAIN pre.db

NoFailure(r) ==
  /\ ~StoreFailed(r)
  /\ req[r].file # NoFile => req[r].file \in req[r].gone

-----------------------------------------------------------------------------
\* The responses that reject a request for its input: a malformed id, no
\* update field, a file that is not an image, a file over the size limit.
InvalidInputTags == {"invalidId", "noUpdateData", "notImage", "tooLarge"}

\* C11: a request rejected for its input (malformed id, no update field,
\* file that is not an image, file over the size limit) touches no store:
\* once it has responded, the collection and the upload directory are as
\* they were before the request; in particular PUT /update/:id with a file
\* and a malformed id leaves no new file in the upload directory.
C11_RejectionTouchesNoStore ==
  \A r \in Reqs :
    (DoneAlone(r) /\ req[r].tag \in InvalidInputTags)
    => /\ db = pre.db
       /\ files = pre.files

\* C12: in every reachable state, every stored item whose section is not
\* "paintings" has the empty string as materials and as paintingSize,
\* whatever POST /upload and PUT /update/:id were given.
C12_PaintingFieldsOnlyForPaintings ==
  \A id \in DOMAIN db :
    db[id].section # Paintings
    => /\ db[id].materials = <<>>
       /\ db[id].paintingSize = <<>>

-----------------------------------------------------------------------------
\* The items of a section in the server of part_001: the files that the
\* uploads have stored in its directory, by name.
FsItems(tree, section) ==
  IF section \in DOMAIN tree
    THEN {<<e.base, e.ext>> : e \in {f \in tree[section] : ~f.sidecar}}
    ELSE {}

\* C13: GET /files/:section, unless the store fails, responds 200 with
\* exactly the items of the section asked for, each once, newest first; the
\* list is empty when the section has no item or does not exist.  First for
\* the server of server.js (the items are the documents of the collection,
\* a request that was alone since it arrived), then for the server of
\* part_001 (the items are the files stored by the uploads).
C13_ListBySection ==
  /\ \A r \in Reqs :
       (DoneAlone(r) /\ req[r].op = "list" /\ ~StoreFailed(r))
       => LET out == req[r].out
          IN /\ req[r].status = 200
             /\ {out[k].id : k \in 1..Len(out)} = Find(pre.db, req[r].section)
             /\ \A k \in 1..Len(out) : out[k] = ItemJson(out[k].id, pre.db[out[k].id])
             /\ \A j, k \in 1..Len(out) : j < k => out[j].uploadDate > out[k].uploadDate
  /\ (fsreq.op = "list" /\ fsreq.pc = "done" /\ fsreq.status # 500)
     => LET out == fsreq.out
        IN /\ fsreq.status = 200
           /\ {out[k].filename : k \in 1..Len(out)} = FsItems(uploads, fsreq.section)
           /\ \A j, k \in 1..Len(out) : j < k => out[j].creationTime > out[k].creationTime

\* C14: GET /files/item/:id responds 400 for a malformed id, at once and
\* without awaiting findById; for a valid id, unless findById fails, it
\* responds 404 when no item has that id and 200 with the item otherwise.
\* It issues no unlink, writes nothing, and leaves the collection and the
\* upload directory as they were.
C14_GetById ==
  \A r \in Reqs :
    req[r].op = "item"
    => /\ ~isValid(req[r].id)
            => (req[r].pc = "done" /\ req[r].status = 400 /\ req[r].out = <<>>)
       /\ req[r].issued = <<>> /\ ~Pending(r) /\ ~req[r].metaOk
       /\ DoneAlone(r) => (db = pre.db /\ files = pre.files)
       /\ (DoneAlone(r) /\ isValid(req[r].id) /\ ~StoreFailed(r))
            => IF req[r].id \in DOMAIN pre.db
                 THEN /\ req[r].status = 200
                      /\ req[r].out = <<ItemJson(req[r].id, pre.db[req[r].id])>>
                 ELSE /\ req[r].status = 404
                      /\ req[r].out = <<>>

C14_Witness ==
  \E r \in Reqs :
    /\ DoneAlone(r) /\ req[r].op = "item" /\ req[r].status = 200
    /\ req[r].out = <<ItemJson(req[r].id, db[req[r].id])>>
    /\ req[r].out[1].title # <<>>

C16_NonImageUpload ==
  \A r \in Reqs :
    (req[r].op = "upload" /\ req[r].tag = "notImage")
    => /\ req[r].status = 400
       /\ req[r].file = NoFile /\ ~req[r].metaOk
       /\ solo = r => (db = pre.db /\ files = pre.files)

C18_StatsSparse ==
  /\ \A r \in Reqs :
       (DoneAlone(r) /\ req[r].op = "stats" /\ req[r].status = 200)
       => \A s \in DOMAIN req[r].out[1].sections : Find(pre.db, s) # {}
  /\ (fsreq.op = "stats" /\ fsreq.pc = "done" /\ fsreq.status = 200)
     => \A s \in DOMAIN fsreq.out[1] : FsItems(uploads, s) # {}

\* C19: the originalName and the uploadDate of an item are set once, by the
\* upload that stored it, and no later step changes them: every step of the
\* server leaves both fields of every item that stays in the store as they
\* were, whether or not a PUT /update/:id carries a replacement file.
C19_OriginalNameAndUploadDateFrozen ==
  [][\A id \in DOMAIN db \cap DOMAIN db' :
        /\ db'[id].originalName = db[id].originalName
        /\ db'[id].uploadDate = db[id].uploadDate]_vars

\* The step is taken by request r: its handler goes on, or one of the
\* unlinks it called completes.
ActsInStep(r) ==
  \/ req[r].pc # "done" /\ req'[r] # req[r]
  \/ \E u \in unlinks \ unlinks' : u.rid = r

\* The record of item B is changed or removed by the step, or its file is.
ChangedInStep(B) ==
  \/ B \notin DOMAIN db'
  \/ db'[B] # db[B]
  \/ db[B].filePath \in files /\ db[B].filePath \notin files'

C21_ReplacedFile ==
  \A r \in Reqs :
    (/\ DoneAlone(r) /\ req[r].op = "update" /\ req[r].status = 200
     /\ req[r].file # NoFile)
    => /\ db[req[r].id].filePath = req[r].file
       /\ req[r].file \in files
       /\ pre.db[req[r].id].filePath \notin files

\* C22: the slug lookup round-trips.  A GET /:section/:slug (the request
\* alone since it arrived) responds 200 with the item when exactly one item
\* of the section has that slug, and 404 when no item of the section has it;
\* and two paintings stored with the same title and different files have
\* distinct slugs.
C22_SlugRoundTrip ==
  /\ \A r \in Reqs :
       (DoneAlone(r) /\ req[r].op = "slug")
       => LET found == FindBySlug(pre.db, req[r].section, req[r].slug)
          IN /\ found = {} => req[r].status = 404
             /\ Cardinality(found) = 1
                => /\ req[r].status = 200
                   /\ req[r].out = <<ItemJson(CHOOSE i \in found : TRUE,
                                              pre.db[CHOOSE i \in found : TRUE])>>
  /\ \A i, j \in DOMAIN db :
       (/\ i # j
        /\ db[i].section = Paintings /\ db[j].section = Paintings
        /\ db[i].title = db[j].title
        /\ db[i].originalName # db[j].originalName)
       => SlugOf(db[i]) # SlugOf(db[j])

\* No request is being handled and no unlink is pending.
Quiescent ==
  /\ \A r \in Reqs : req[r].pc \in {"idle", "done"}
  /\ unlinks = {}

\* The records whose filePath is file f.
ReferencedBy(f) == {i \in DOMAIN db : db[i].filePath = f}

\* C23: when no store call fails, after any interleaving of uploads, updates
\* with replacement files and deletes, once every request has completed,
\* every file of the upload directory is referenced by exactly one record:
\* no orphaned file remains.
C23_NoOrphanedFile ==
  Quiescent => \A f \in files : Cardinality(ReferencedBy(f)) = 1

\* C24: whenever DELETE /delete/:id reports that the item was removed from
\* the database but the deletion of its file failed, the file of the item
\* still exists at that moment (metadata gone, blob orphaned), under every
\* interleaving.
C24_PartialFailureLeavesBlob ==
  [][\A r \in Reqs :
        (/\ req[r].op = "delete"
         /\ req[r].tag # "blobDeleteFailed"
         /\ req'[r].tag = "blobDeleteFailed")
        => req[r].old \in files']_vars

\* Request r is being handled: it has arrived and no response has been sent.
InFlight(r) == req[r].pc \notin {"idle", "done"}

\* C25: every request to the upload, list, get-by-id, update, delete and
\* stats handlers gets exactly one response on every path.  A request that
\* is being handled is eventually responded to; a response carries a status;
\* and once a response is sent no step sends another: until the request is
\* forgotten its status and its response stay as they are.
C25_ExactlyOneResponse ==
  /\ \A r \in Reqs : InFlight(r) ~> (req[r].pc = "done")
  /\ [](\A r \in Reqs : req[r].pc = "done" => req[r].status # 0)
  /\ [][\A r \in Reqs :
          req[r].pc = "done"
          => \/ req'[r] = NoReq
             \/ /\ req'[r].pc = "done"
                /\ req'[r].status = req[r].status
                /\ req'[r].tag = req[r].tag]_vars

\* A delete has been responded to by the callback of its fs.unlink, which
\* reported an error.
C25_Witness ==
  \E r \in Reqs :
    /\ req[r].op = "delete" /\ req[r].pc = "done"
    /\ req[r].tag = "blobDeleteFailed"

\* The count that a stats object reports for a section: none is 0.
CountFor(stats, section) == IF section \in DOMAIN stats THEN stats[section] ELSE 0

\* C26: when no request is being handled, for every section that an upload
\* can name, the count that GET /stats reports for the section is the
\* number of items that GET /files/:section returns for it.  First for the
\* server of part_001, then for the server of server.js.
C26_StatsMatchList ==
  /\ fsreq.pc \in {"idle", "done"}
     => \A s \in FsSections :
          CountFor(FsStatsOf(uploads), s) = Len(FsFound(uploads, s))
  /\ Quiescent
     => \A s \in ListSections :
          CountFor(GroupBySection(db), s) = Len(SortByUploadDate(db, Find(db, s)))

\* The sum of the counts of a per-section mapping.
RECURSIVE SumCounts(_)
SumCounts(counts) ==
  IF DOMAIN counts = {} THEN 0
  ELSE LET s == CHOOSE t \in DOMAIN counts : TRUE
       IN counts[s] + SumCounts([t \in DOMAIN counts \ {s} |-> counts[t]])

\* C27: every 200 response of GET /stats of server.js has
\* recentUploads <= monthlyUploads <= totalItems, and totalItems equal to
\* the sum of its per-section counts, whatever commits between the queries
\* of the handler.
C27_StatsConsistent ==
  \A r \in Reqs :
    (req[r].op = "stats" /\ req[r].pc = "done" /\ req[r].status = 200)
    => LET stats == req[r].out[1]
       IN /\ stats.recentUploads <= stats.monthlyUploads
          /\ stats.monthlyUploads <= stats.totalItems
          /\ stats.totalItems = SumCounts(stats.sections)

\* C28: in the server of part_001, when POST /upload has responded 201 to a
\* request with a title or a description, the sidecar of the file has been
\* written with them, so that the listing of the section gives the file
\* with that title and that description: an upload whose sidecar could not
\* be written does not respond 201.
C28_SidecarWrittenBefore201 ==
  (/\ fsreq.op = "upload" /\ fsreq.pc = "done" /\ fsreq.status = 201
   /\ FsHasMetadata(fsreq.body))
  => LET listed == FsFound(uploads, fsreq.section)
     IN \A k \in 1..Len(listed) :
          <<listed[k].base, listed[k].ext>> = fsreq.out[1]
          => loadMetadata(uploads, fsreq.section, listed[k]) = FsMetadata(fsreq.body)

\* A DELETE /delete with a filename and a section is handled in this step.
FsDeleteStep ==
  /\ fsclock' # fsclock
  /\ fsreq'.op = "delete"
  /\ fsreq'.file # NoName /\ Truthy(fsreq'.section)

\* The image and the sidecar that a DELETE /delete names, in a tree.
FsNamed(tree, q) ==
  At(tree, q.section, q.file[1], q.file[2]) \cup At(tree, q.section, q.file[1], JsonExt)

\* Every sidecar lies beside its image.
SidecarHasImage ==
  \A d \in DOMAIN uploads : \A m \in uploads[d] :
    m.sidecar => \E e \in uploads[d] : ~e.sidecar /\ e.base = m.base

\* C29: in the server of part_001, DELETE /delete with a filename and a
\* section responds 404 exactly when neither the image nor its sidecar
\* exists (unless it responds 500), and then changes nothing; after it has
\* responded 200 neither exists; and in no reachable state is there a
\* sidecar for an image that has been deleted.
C29_DeleteImageAndSidecar ==
  /\ [][FsDeleteStep
        => /\ fsreq'.status # 500
              => (fsreq'.status = 404 <=> FsNamed(uploads, fsreq') = {})
           /\ fsreq'.status = 404 => uploads' = uploads
           /\ fsreq'.status = 200 => FsNamed(uploads', fsreq') = {}]_vars
  /\ []SidecarHasImage

\* C30: in every reachable state no two documents of the collection have
\* the same filename or the same filePath, whatever the original names of
\* the files and the times of the uploads.
C30_UniqueFilename ==
  \A i, j \in DOMAIN db :
    i # j => /\ db[i].filename # db[j].filename
             /\ db[i].filePath # db[j].filePath

====
